---- MODULE Spec2Model ----
(***************************************************************************)
(* Model of src/src/rdx-run1-sample.cpp: the per-event form-factor         *)
(* reweighting loop of reweight(), its helpers, and main().                *)
(*                                                                         *)
(* A Double_t is modelled exactly as a pair <<n, d>>: a reduced fraction   *)
(* n/d with d > 0, or one of the IEEE special values +Inf = <<1, 0>>,      *)
(* -Inf = <<-1, 0>>, NaN = <<0, 0>>.  Signed zeros are not distinguished.  *)
(***************************************************************************)
EXTENDS Integers, Sequences, FiniteSets, TLC

\* Largest number of rows of the input table.
MaxEvents == 3

\* Largest value of Int_t (32-bit signed).
IntMax == 2147483647

\* The weight above which reweight() prints a diagnostic.
ProblematicThreshold == 10

\* Unit conversions of the derived observables (MeV^2 -> GeV^2, MeV -> GeV).
MeV2PerGeV2 == 1000000
MeVPerGeV == 1000

--------------------------------------------------------------------------
(* Double_t arithmetic *)

Abs(n) == IF n < 0 THEN -n ELSE n

Sgn(n) == IF n < 0 THEN -1 ELSE IF n > 0 THEN 1 ELSE 0

RECURSIVE GCD(_, _)
GCD(a, b) == IF b = 0 THEN a ELSE GCD(b, a % b)

\* The reduced fraction n/d, d # 0.
Norm(n, d) ==
  LET g == GCD(Abs(n), Abs(d))
  IN  <<Sgn(d) * (n \div g), Abs(d) \div g>>

\* The double holding the integer n.
D(n) == <<n, 1>>

NaN == <<0, 0>>

IsFin(x) == x[2] # 0

IsNaN(x) == x = NaN

IsZero(x) == IsFin(x) /\ x[1] = 0

DNeg(x) == <<-x[1], x[2]>>

DAdd(x, y) ==
  IF IsNaN(x) \/ IsNaN(y) THEN NaN
  ELSE IF IsFin(x) /\ IsFin(y) THEN Norm(x[1] * y[2] + y[1] * x[2], x[2] * y[2])
  ELSE IF IsFin(x) THEN y
  ELSE IF IsFin(y) THEN x
  ELSE IF x = y THEN x ELSE NaN

DSub(x, y) == DAdd(x, DNeg(y))

DMul(x, y) ==
  IF IsNaN(x) \/ IsNaN(y) THEN NaN
  ELSE IF IsFin(x) /\ IsFin(y) THEN Norm(x[1] * y[1], x[2] * y[2])
  ELSE IF IsZero(x) \/ IsZero(y) THEN NaN
  ELSE <<Sgn(x[1]) * Sgn(y[1]), 0>>

\* x / y with the IEEE results for a zero or infinite divisor.
DDiv(x, y) ==
  IF IsNaN(x) \/ IsNaN(y) THEN NaN
  ELSE IF IsZero(y) THEN (IF IsZero(x) THEN NaN ELSE <<Sgn(x[1]), 0>>)
  ELSE IF ~IsFin(y) THEN (IF IsFin(x) THEN D(0) ELSE NaN)
  ELSE IF ~IsFin(x) THEN <<Sgn(x[1]) * Sgn(y[1]), 0>>
  ELSE Norm(x[1] * y[2], x[2] * y[1])

\* x > y; false when either is NaN.
DGt(x, y) ==
  IF IsNaN(x) \/ IsNaN(y) THEN FALSE
  ELSE IF IsFin(x) /\ IsFin(y) THEN x[1] * y[2] > y[1] * x[2]
  ELSE IF IsFin(x) THEN y[1] < 0
  ELSE IF IsFin(y) THEN x[1] > 0
  ELSE x[1] > y[1]

\* x >= y; false when either is NaN.
DGe(x, y) == DGt(x, y) \/ (~IsNaN(x) /\ x = y)

\* The largest r with r * r <= n, n >= 0.
ISqrt(n) == CHOOSE r \in 0..n : r * r <= n /\ (r + 1) * (r + 1) > n

\* sqrt(x): NaN for a negative argument; the inputs of the model make the
\* finite results exact.
DSqrt(x) ==
  IF IsNaN(x) THEN NaN
  ELSE IF ~IsFin(x) THEN (IF x[1] > 0 THEN x ELSE NaN)
  ELSE IF x[1] < 0 THEN NaN
  ELSE Norm(ISqrt(x[1] * x[2]), x[2])

--------------------------------------------------------------------------
(* TLorentzVector: <<X, Y, Z, T>> of doubles, as SetPxPyPzE stores it *)

SetPxPyPzE(px, py, pz, e) == <<px, py, pz, e>>

LVAdd(a, b) == <<DAdd(a[1], b[1]), DAdd(a[2], b[2]), DAdd(a[3], b[3]), DAdd(a[4], b[4])>>

LVSub(a, b) == <<DSub(a[1], b[1]), DSub(a[2], b[2]), DSub(a[3], b[3]), DSub(a[4], b[4])>>

\* TLorentzVector::M2(): T^2 - (X^2 + Y^2 + Z^2).
M2(a) ==
  DSub(DMul(a[4], a[4]),
       DAdd(DAdd(DMul(a[1], a[1]), DMul(a[2], a[2])), DMul(a[3], a[3])))

\* TVector3 unary minus.
V3Neg(v) == <<DNeg(v[1]), DNeg(v[2]), DNeg(v[3])>>

\* TLorentzVector::Boost(b): the vector a after the boost by velocity b.
Boost(a, b) ==
  LET b2     == DAdd(DAdd(DMul(b[1], b[1]), DMul(b[2], b[2])), DMul(b[3], b[3]))
      gamma  == DDiv(D(1), DSqrt(DSub(D(1), b2)))
      bp     == DAdd(DAdd(DMul(b[1], a[1]), DMul(b[2], a[2])), DMul(b[3], a[3]))
      gamma2 == IF DGt(b2, D(0)) THEN DDiv(DSub(gamma, D(1)), b2) ELSE D(0)
      comp(i) == DAdd(DAdd(a[i], DMul(DMul(gamma2, bp), b[i])),
                      DMul(DMul(gamma, b[i]), a[4]))
  IN  <<comp(1), comp(2), comp(3), DMul(gamma, DAdd(a[4], bp))>>

--------------------------------------------------------------------------
(* The input table *)

\* The particles of the fixed topology, named as the branch prefixes are.
Roles == {"b", "dst", "d0", "mu", "k", "pi", "spi", "tau", "anu_tau", "nu_tau", "anu_mu"}

\* A four-momentum as the branches hold it: <<pe, px, py, pz>>.
P4(pe, px, py, pz) == <<D(pe), D(px), D(py), D(pz)>>

\* A B0 -> D*- tau nu record: opposite-sign parent and resonance, moving parent.
EvNormal ==
  [eventNumber |-> 101, runNumber |-> 1,
   id  |-> [r \in Roles |->
              CASE r = "b" -> 511 [] r = "dst" -> -413 [] r = "d0" -> -421
                [] r = "mu" -> 13 [] r = "k" -> 321 [] r = "pi" -> -211
                [] r = "spi" -> -211 [] r = "tau" -> 15 [] r = "anu_tau" -> -16
                [] r = "nu_tau" -> 16 [] r = "anu_mu" -> -14],
   mom |-> [r \in Roles |->
              CASE r = "b" -> P4(5, 3, 0, 0) [] r = "dst" -> P4(3, 2, 0, 0)
                [] r = "d0" -> P4(2, 1, 0, 0) [] r = "mu" -> P4(2, 2, 0, 0)
                [] r = "k" -> P4(1, 0, 1, 0) [] r = "pi" -> P4(1, 0, 0, 1)
                [] r = "spi" -> P4(1, 1, 0, 0) [] r = "tau" -> P4(4, 1, 1, 1)
                [] r = "anu_tau" -> P4(1, 0, 1, 0) [] r = "nu_tau" -> P4(1, 1, 0, 0)
                [] r = "anu_mu" -> P4(1, 0, 0, 1)]]

\* A record whose parent oscillated: same-sign parent and resonance, parent at rest.
EvOsc ==
  [EvNormal EXCEPT !.eventNumber = 102, !.id["b"] = -511,
                   !.mom["b"] = P4(5, 0, 0, 0)]

\* A record whose parent energy is zero.
EvZeroE ==
  [EvNormal EXCEPT !.eventNumber = 103, !.runNumber = 2,
                   !.mom["b"] = P4(0, 3, 0, 0)]

\* A record whose type codes are large: the Int_t product b_id * dst_id overflows.
EvBigId ==
  [EvNormal EXCEPT !.eventNumber = 104, !.runNumber = 2,
                   !.id["b"] = 65536, !.id["dst"] = 65536]

Events == {EvNormal, EvOsc, EvZeroE, EvBigId}

\* All tables of at most MaxEvents rows.
Tables == UNION {[1..n -> Events] : n \in 0..MaxEvents}

\* What the evaluator may answer: addProcess (0: no configured channel matches)
\* and getWeight (the largest weight that is not flagged, and 10.5).
ProcIds == {0, 1}

Weights == {D(ProblematicThreshold), <<2 * ProblematicThreshold + 1, 2>>}

\* An indeterminate (not yet assigned) scalar and an empty local.
Indet == <<0, -1>>

NoLocal == <<>>

--------------------------------------------------------------------------
(* Helpers of the source *)

\* particle(): a Hammer::Particle of FourMomentum(pe, px, py, pz) and PdgId pid.
particle(pe, px, py, pz, pid) == [mom |-> <<pe, px, py, pz>>, id |-> pid]

\* calc_mm2_with_nu(): the invariant mass squared of the summed momenta, in GeV^2.
RECURSIVE SumMomenta(_, _)
SumMomenta(momenta, tot_mom) ==
  IF momenta = <<>> THEN tot_mom
  ELSE SumMomenta(Tail(momenta), LVAdd(tot_mom, Head(momenta)))

calc_mm2_with_nu(momenta) ==
  DDiv(M2(SumMomenta(momenta, SetPxPyPzE(D(0), D(0), D(0), D(0)))), D(MeV2PerGeV2))

\* calc_true_fit_vars(): what the caller sees after the call. mu_mom is a
\* by-value parameter: the boost acts on the callee's copy.
calc_true_fit_vars_by_ref(b_lab_v_, b_mom_, dst_mom_, mu_mom_) ==
  LET boosted == Boost(mu_mom_, V3Neg(b_lab_v_))
  IN  [q2 |-> DDiv(M2(LVSub(b_mom_, dst_mom_)), D(MeV2PerGeV2)),
       el |-> DDiv(boosted[4], D(MeVPerGeV)),
       b_lab_v |-> b_lab_v_, b_mom |-> b_mom_, dst_mom |-> dst_mom_,
       mu_mom |-> boosted]

calc_true_fit_vars(b_lab_v_, b_mom_, dst_mom_, mu_mom_) ==
  LET boosted == Boost(mu_mom_, V3Neg(b_lab_v_))
  IN  [q2 |-> DDiv(M2(LVSub(b_mom_, dst_mom_)), D(MeV2PerGeV2)),
       el |-> DDiv(boosted[4], D(MeVPerGeV)),
       b_lab_v |-> b_lab_v_, b_mom |-> b_mom_, dst_mom |-> dst_mom_,
       mu_mom |-> mu_mom_]

\* Hammer::Process: the particles in registration order and the vertices.
\* addParticle returns the index of the particle it stored (0-based).
EmptyProcess == [particles |-> <<>>, vertices |-> <<>>]

addParticle(p, part) == [p EXCEPT !.particles = Append(@, part)]

addVertex(p, parent, daughters) ==
  [p EXCEPT !.vertices = Append(@, [parent |-> parent, daughters |-> daughters])]

add_ham_part_Tau_wrong_parent(p, B0, Dst, D0, SlowPi, K, Pi, Tau, Anti_Nu_Tau, Nu_Tau, Mu, Anti_Nu_Mu) ==
  LET parts == <<B0, Dst, SlowPi, D0, K, Pi, Mu, Tau, Anti_Nu_Mu, Anti_Nu_Tau, Nu_Tau>>
      base  == Len(p.particles)
      p11   == [p EXCEPT !.particles = @ \o parts]
      B0_idx == base              Dst_idx == base + 1
      SlowPi_idx == base + 2      D0_idx == base + 3
      K_idx == base + 4           Pi_idx == base + 5
      Mu_idx == base + 6          Tau_idx == base + 7
      Anti_Nu_Mu_idx == base + 8  Anti_Nu_Tau_idx == base + 9
      Nu_Tau_idx == base + 10
      v1 == addVertex(p11, B0_idx, <<Dst_idx, Tau_idx, Anti_Nu_Tau_idx>>)
      v2 == addVertex(v1, Tau_idx, <<Mu_idx, Nu_Tau_idx, Anti_Nu_Mu_idx>>)
      v3 == addVertex(v2, Dst_idx, <<D0_idx, SlowPi_idx>>)
  IN  addVertex(v3, Dst_idx, <<K_idx, Pi_idx>>)

add_ham_part_Tau(p, B0, Dst, D0, SlowPi, K, Pi, Tau, Anti_Nu_Tau, Nu_Tau, Mu, Anti_Nu_Mu) ==
  LET p1  == addParticle(p, B0)             B0_idx == Len(p.particles)
      p2  == addParticle(p1, Dst)           Dst_idx == Len(p1.particles)
      p3  == addParticle(p2, SlowPi)        SlowPi_idx == Len(p2.particles)
      p4  == addParticle(p3, D0)            D0_idx == Len(p3.particles)
      p5  == addParticle(p4, K)             K_idx == Len(p4.particles)
      p6  == addParticle(p5, Pi)            Pi_idx == Len(p5.particles)
      p7  == addParticle(p6, Mu)            Mu_idx == Len(p6.particles)
      p8  == addParticle(p7, Tau)           Tau_idx == Len(p7.particles)
      p9  == addParticle(p8, Anti_Nu_Mu)    Anti_Nu_Mu_idx == Len(p8.particles)
      p10 == addParticle(p9, Anti_Nu_Tau)   Anti_Nu_Tau_idx == Len(p9.particles)
      p11 == addParticle(p10, Nu_Tau)       Nu_Tau_idx == Len(p10.particles)
      v1 == addVertex(p11, B0_idx, <<Dst_idx, Tau_idx, Anti_Nu_Tau_idx>>)
      v2 == addVertex(v1, Tau_idx, <<Mu_idx, Nu_Tau_idx, Anti_Nu_Mu_idx>>)
      v3 == addVertex(v2, Dst_idx, <<D0_idx, SlowPi_idx>>)
  IN  addVertex(v3, D0_idx, <<K_idx, Pi_idx>>)

\* Whether the Int_t product a * b is representable (no signed overflow).
ProductFits(a, b) ==
  \/ a = 0
  \/ b = 0
  \/ Abs(a) <= IntMax \div Abs(b)
  \/ /\ Sgn(a) # Sgn(b)
     /\ IntMax % Abs(b) = Abs(b) - 1
     /\ Abs(a) = (IntMax \div Abs(b)) + 1

\* The values b_id_fix can take: the branch on b_id * dst_id > 0. Signed
\* overflow of the product is undefined behaviour: either branch may be taken.
BIdFix(b_id, dst_id) ==
  IF ProductFits(b_id, dst_id)
  THEN IF b_id * dst_id > 0 THEN {-b_id} ELSE {b_id}
  ELSE {-b_id, b_id}

\* The test of the diagnostic: w_ff_out > 10.
ProblematicWeight_ge(w) == DGe(w, D(ProblematicThreshold))

ProblematicWeight(w) == DGt(w, D(ProblematicThreshold))

\* The test that guards processEvent/getWeight/Fill: proc_id != 0.
ValidProcess_always(pid) == TRUE

ValidProcess(pid) == pid # 0

\* Where control goes after the test: into the if block, or to the loop head.
BranchTarget_fill_outside(pid) == IF ValidProcess(pid) THEN "process_event" ELSE "fill"

BranchTarget(pid) == IF ValidProcess(pid) THEN "process_event" ELSE "loop"

\* Hammer::initEvent(): the evaluator holds one event, which the call resets;
\* evs is the set of entries whose event context is live.
initEvent_keep(evs, e) == evs \cup {e}

initEvent(evs, e) == {e}

--------------------------------------------------------------------------
(* The program state *)

VARIABLES
  input,            \* the rows of the input tree mc_dst_tau_aux
  schemaOK,         \* whether the tree has every branch a TTreeReaderValue names
  pc,               \* the statement about to run
  entry,            \* the reader's current entry (0 before the first Next())
  eventNumber_out, runNumber_out, w_ff_out, q2_out, mm2_out, el_out,
  b_id_fix, b_lab_v, b_mom, dst_mom, mu_mom, proc, proc_id,
  output,           \* the rows of the output TTree, in memory
  disk,             \* what output_file->Write() has written, one element per call
  hamEvents,        \* entries whose evaluator event context is live
  diag,             \* the lines printed to std::cout
  retIds,           \* history: what addProcess returned, per submission
  retW,             \* history: what getWeight returned, and for which entry
  fillLog,          \* history: the entry each output row was filled at
  diagLog,          \* history: the entry each diagnostic was printed at
  divZeroLog        \* history: entries at which a division by a zero b_true_pe ran

outs   == <<eventNumber_out, runNumber_out, w_ff_out, q2_out, mm2_out, el_out>>
locals == <<b_id_fix, b_lab_v, b_mom, dst_mom, mu_mom, proc, proc_id>>
io     == <<output, disk, diag>>
hist   == <<retIds, retW, fillLog, diagLog, divZeroLog>>
vars   == <<input, schemaOK, pc, entry, outs, locals, io, hamEvents, hist>>

\* The record the reader's values refer to.
Cur == input[entry]

\* The branch values <role>_true_px, _py, _pz, _pe as a TLorentzVector.
RecMom(ev, r) == SetPxPyPzE(ev.mom[r][2], ev.mom[r][3], ev.mom[r][4], ev.mom[r][1])

\* particle() on the branch values of role r with type code pid.
RecPart(ev, r, pid) ==
  particle(ev.mom[r][1], ev.mom[r][2], ev.mom[r][3], ev.mom[r][4], pid)

Init ==
  /\ input \in Tables
  /\ schemaOK \in BOOLEAN
  /\ pc = "loop"
  /\ entry = 0
  /\ eventNumber_out = Indet /\ runNumber_out = Indet /\ w_ff_out = Indet
  /\ q2_out = Indet /\ mm2_out = Indet /\ el_out = Indet
  /\ b_id_fix = NoLocal /\ b_lab_v = NoLocal /\ b_mom = NoLocal
  /\ dst_mom = NoLocal /\ mu_mom = NoLocal /\ proc = NoLocal /\ proc_id = NoLocal
  /\ output = <<>> /\ disk = <<>> /\ diag = <<>>
  /\ hamEvents = {}
  /\ retIds = <<>> /\ retW = <<>> /\ fillLog = <<>> /\ diagLog = <<>>
  /\ divZeroLog = {}

\* while (reader.Next()): the locals of the previous iteration are gone. With a
\* branch missing the reader's setup fails and Next() returns false at once.
ReaderNext ==
  /\ pc = "loop"
  /\ IF schemaOK /\ entry < Len(input)
     THEN entry' = entry + 1 /\ pc' = "copy_ids"
     ELSE entry' = entry /\ pc' = "write"
  /\ b_id_fix' = NoLocal /\ b_lab_v' = NoLocal /\ b_mom' = NoLocal
  /\ dst_mom' = NoLocal /\ mu_mom' = NoLocal /\ proc' = NoLocal /\ proc_id' = NoLocal
  /\ UNCHANGED <<input, schemaOK, outs, io, hamEvents, hist>>

\* eventNumber_out = *eventNumber; runNumber_out = *runNumber;
CopyIds ==
  /\ pc = "copy_ids"
  /\ eventNumber_out' = Cur.eventNumber
  /\ runNumber_out' = Cur.runNumber
  /\ pc' = "fix_b_id"
  /\ UNCHANGED <<input, schemaOK, entry, w_ff_out, q2_out, mm2_out, el_out,
                 locals, io, hamEvents, hist>>

\* if (*b_id * *dst_id > 0) b_id_fix = -*b_id; else b_id_fix = *b_id;
FixBId ==
  /\ pc = "fix_b_id"
  /\ b_id_fix' \in BIdFix(Cur.id["b"], Cur.id["dst"])
  /\ pc' = "lab_velocity"
  /\ UNCHANGED <<input, schemaOK, entry, outs, b_lab_v, b_mom, dst_mom, mu_mom,
                 proc, proc_id, io, hamEvents, hist>>

\* v_x = *b_true_px / *b_true_pe; ... b_lab_v = TVector3(v_x, v_y, v_z);
LabVelocity ==
  /\ pc = "lab_velocity"
  /\ LET pe == Cur.mom["b"][1]
     IN  /\ b_lab_v' = <<DDiv(Cur.mom["b"][2], pe), DDiv(Cur.mom["b"][3], pe),
                         DDiv(Cur.mom["b"][4], pe)>>
         /\ divZeroLog' = IF IsZero(pe) THEN divZeroLog \cup {entry} ELSE divZeroLog
  /\ pc' = "calc_true_fit_vars"
  /\ UNCHANGED <<input, schemaOK, entry, outs, b_id_fix, b_mom, dst_mom, mu_mom,
                 proc, proc_id, io, hamEvents, retIds, retW, fillLog, diagLog>>

\* The three SetPxPyPzE calls and calc_true_fit_vars(q2_out, el_out, ...).
CalcTrueFitVars ==
  /\ pc = "calc_true_fit_vars"
  /\ LET r == calc_true_fit_vars(b_lab_v, RecMom(Cur, "b"), RecMom(Cur, "dst"),
                                 RecMom(Cur, "mu"))
     IN  /\ q2_out' = r.q2
         /\ el_out' = r.el
         /\ b_lab_v' = r.b_lab_v
         /\ b_mom' = r.b_mom
         /\ dst_mom' = r.dst_mom
         /\ mu_mom' = r.mu_mom
  /\ pc' = "calc_mm2"
  /\ UNCHANGED <<input, schemaOK, entry, eventNumber_out, runNumber_out, w_ff_out,
                 mm2_out, b_id_fix, proc, proc_id, io, hamEvents, hist>>

\* mm2_out = calc_mm2_with_nu({nu_tau_mom, anu_tau_mom, anu_mu_mom});
CalcMm2 ==
  /\ pc = "calc_mm2"
  /\ mm2_out' = calc_mm2_with_nu(<<RecMom(Cur, "nu_tau"), RecMom(Cur, "anu_tau"),
                                   RecMom(Cur, "anu_mu")>>)
  /\ pc' = "build_process"
  /\ UNCHANGED <<input, schemaOK, entry, eventNumber_out, runNumber_out, w_ff_out,
                 q2_out, el_out, locals, io, hamEvents, hist>>

\* The eleven particle() calls and add_ham_part_Tau(proc, ...).
BuildProcess ==
  /\ pc = "build_process"
  /\ LET B0          == RecPart(Cur, "b", b_id_fix)
         Dst         == RecPart(Cur, "dst", Cur.id["dst"])
         SlowPi      == RecPart(Cur, "spi", Cur.id["spi"])
         D0          == RecPart(Cur, "d0", Cur.id["d0"])
         K           == RecPart(Cur, "k", Cur.id["k"])
         Pi          == RecPart(Cur, "pi", Cur.id["pi"])
         Mu          == RecPart(Cur, "mu", Cur.id["mu"])
         Tau         == RecPart(Cur, "tau", Cur.id["tau"])
         Anti_Nu_Mu  == RecPart(Cur, "anu_mu", Cur.id["anu_mu"])
         Anti_Nu_Tau == RecPart(Cur, "anu_tau", Cur.id["anu_tau"])
         Nu_Tau      == RecPart(Cur, "nu_tau", Cur.id["nu_tau"])
     IN  proc' = add_ham_part_Tau(EmptyProcess, B0, Dst, D0, SlowPi, K, Pi, Tau,
                                  Anti_Nu_Tau, Nu_Tau, Mu, Anti_Nu_Mu)
  /\ pc' = "init_event"
  /\ UNCHANGED <<input, schemaOK, entry, outs, b_id_fix, b_lab_v, b_mom, dst_mom,
                 mu_mom, proc_id, io, hamEvents, hist>>

\* ham.initEvent();
InitEvent ==
  /\ pc = "init_event"
  /\ hamEvents' = initEvent(hamEvents, entry)
  /\ pc' = "add_process"
  /\ UNCHANGED <<input, schemaOK, entry, outs, locals, io, hist>>

\* auto proc_id = ham.addProcess(proc); the evaluator decides the result.
AddProcess ==
  /\ pc = "add_process"
  /\ \E id \in ProcIds :
       /\ proc_id' = id
       /\ retIds' = Append(retIds, id)
  /\ pc' = "branch"
  /\ UNCHANGED <<input, schemaOK, entry, outs, b_id_fix, b_lab_v, b_mom, dst_mom,
                 mu_mom, proc, io, hamEvents, retW, fillLog, diagLog, divZeroLog>>

\* if (proc_id != 0) { ... }
Branch ==
  /\ pc = "branch"
  /\ pc' = BranchTarget(proc_id)
  /\ UNCHANGED <<input, schemaOK, entry, outs, locals, io, hamEvents, hist>>

\* ham.processEvent(); w_ff_out = ham.getWeight("SemiTauonic");
ProcessEvent ==
  /\ pc = "process_event"
  /\ \E w \in Weights :
       /\ w_ff_out' = w
       /\ retW' = Append(retW, [entry |-> entry, w |-> w])
  /\ pc' = "check_weight"
  /\ UNCHANGED <<input, schemaOK, entry, eventNumber_out, runNumber_out, q2_out,
                 mm2_out, el_out, locals, io, hamEvents, retIds, fillLog, diagLog,
                 divZeroLog>>

\* if (w_ff_out > 10) std::cout << "Problematic weight of " << ... << *eventNumber
CheckWeight ==
  /\ pc = "check_weight"
  /\ IF ProblematicWeight(w_ff_out)
     THEN /\ diag' = Append(diag, [w |-> w_ff_out, eventNumber |-> Cur.eventNumber])
          /\ diagLog' = Append(diagLog, entry)
     ELSE UNCHANGED <<diag, diagLog>>
  /\ pc' = "fill"
  /\ UNCHANGED <<input, schemaOK, entry, outs, locals, output, disk, hamEvents,
                 retIds, retW, fillLog, divZeroLog>>

\* output.Fill(): one row from the six branch buffers.
Fill ==
  /\ pc = "fill"
  /\ output' = Append(output, [eventNumber |-> eventNumber_out,
                               runNumber |-> runNumber_out, w_ff |-> w_ff_out,
                               q2_true |-> q2_out, mm2_true |-> mm2_out,
                               el_true |-> el_out])
  /\ fillLog' = Append(fillLog, entry)
  /\ pc' = "loop"
  /\ UNCHANGED <<input, schemaOK, entry, outs, locals, disk, diag, hamEvents,
                 retIds, retW, diagLog, divZeroLog>>

\* output_file->Write("", TObject::kOverwrite);
Write ==
  /\ pc = "write"
  /\ disk' = Append(disk, output)
  /\ pc' = "return"
  /\ UNCHANGED <<input, schemaOK, entry, outs, locals, output, diag, hamEvents, hist>>

\* reweight() returns: ham, the reader and the tree go out of scope.
ReturnReweight ==
  /\ pc = "return"
  /\ hamEvents' = {}
  /\ pc' = "delete"
  /\ UNCHANGED <<input, schemaOK, entry, outs, locals, io, hist>>

\* delete input_file; delete output_file; return 0;
MainExit ==
  /\ pc = "delete"
  /\ pc' = "done"
  /\ UNCHANGED <<input, schemaOK, entry, outs, locals, io, hamEvents, hist>>

Next ==
  \/ ReaderNext
  \/ CopyIds
  \/ FixBId
  \/ LabVelocity
  \/ CalcTrueFitVars
  \/ CalcMm2
  \/ BuildProcess
  \/ InitEvent
  \/ AddProcess
  \/ Branch
  \/ ProcessEvent
  \/ CheckWeight
  \/ Fill
  \/ Write
  \/ ReturnReweight
  \/ MainExit

Spec == Init /\ [][Next]_vars

--------------------------------------------------------------------------
(* Vocabulary of the properties *)

\* Statements of the loop body after calc_true_fit_vars, and after add_ham_part_Tau.
PostBuild == {"init_event", "add_process", "branch", "process_event", "check_weight", "fill"}

PostCalc == {"calc_mm2", "build_process"} \cup PostBuild

\* After the loop.
AfterLoop == {"write", "return", "delete", "done"}

\* The entries among the first n submissions whose addProcess result is nonzero,
\* in input order.
RECURSIVE Accepted(_)
Accepted(n) ==
  IF n = 0 THEN <<>>
  ELSE IF retIds[n] # 0 THEN Append(Accepted(n - 1), n) ELSE Accepted(n - 1)

SameSign(a, b) == (a > 0 /\ b > 0) \/ (a < 0 /\ b < 0) \/ (a = 0 /\ b = 0)

\* The observables of a record, from its branch values alone.
ExpectedV(ev) ==
  <<DDiv(ev.mom["b"][2], ev.mom["b"][1]), DDiv(ev.mom["b"][3], ev.mom["b"][1]),
    DDiv(ev.mom["b"][4], ev.mom["b"][1])>>

ExpectedQ2(ev) == DDiv(M2(LVSub(RecMom(ev, "b"), RecMom(ev, "dst"))), D(MeV2PerGeV2))

ExpectedEl(ev) == DDiv(Boost(RecMom(ev, "mu"), V3Neg(ExpectedV(ev)))[4], D(MeVPerGeV))

ExpectedMm2(ev) ==
  DDiv(M2(LVAdd(LVAdd(RecMom(ev, "nu_tau"), RecMom(ev, "anu_tau")), RecMom(ev, "anu_mu"))),
       D(MeV2PerGeV2))

\* The particles reachable from the set S of indices along the vertices vs.
RECURSIVE ReachFrom(_, _)
ReachFrom(vs, S) ==
  LET more == S \cup UNION {{vs[k].daughters[j] : j \in 1..Len(vs[k].daughters)} :
                               k \in {i \in 1..Len(vs) : vs[i].parent \in S}}
  IN  IF more = S THEN S ELSE ReachFrom(vs, more)

--------------------------------------------------------------------------
(* Properties *)

\* C1: once the loop has ended, the output table holds exactly one row for each
\* event whose addProcess result was nonzero, none for an event whose result was
\* zero, and the rows are in the input order of those events.
C1_RowsAreAcceptedEventsInOrder ==
  pc \in AfterLoop =>
    /\ fillLog = Accepted(Len(retIds))
    /\ Len(output) = Len(fillLog)
    /\ \A k \in 1..Len(output) :
         /\ output[k].eventNumber = input[fillLog[k]].eventNumber
         /\ output[k].runNumber = input[fillLog[k]].runNumber

\* C1 witness: a finished run in which a skipped event lies between two
\* evaluated ones.
C1_Witness ==
  /\ pc = "done"
  /\ retIds = <<1, 0, 1>>
  /\ fillLog = <<1, 3>>
  /\ Len(output) = 2

\* C2: an event whose parent energy is zero is rejected before any division by
\* the parent energy runs, and writes no output row.
C2_ZeroEnergyRejectedBeforeDivision ==
  /\ divZeroLog = {}
  /\ \A k \in 1..Len(fillLog) : ~IsZero(input[fillLog[k]].mom["b"][1])

\* C3: the parent code handed to the decay-tree builder is -b_id exactly when
\* b_id and dst_id have the same sign and b_id otherwise; every other particle
\* code is passed as recorded.
C3_SignCorrection ==
  /\ pc \in {"lab_velocity", "calc_true_fit_vars"} \cup PostCalc =>
       b_id_fix = IF SameSign(Cur.id["b"], Cur.id["dst"])
                  THEN -Cur.id["b"] ELSE Cur.id["b"]
  /\ pc \in PostBuild =>
       /\ proc.particles[1].id = IF SameSign(Cur.id["b"], Cur.id["dst"])
                                 THEN -Cur.id["b"] ELSE Cur.id["b"]
       /\ \A r \in Roles \ {"b"} :
            \E i \in 1..Len(proc.particles) :
               proc.particles[i] = RecPart(Cur, r, Cur.id[r])

C5_CommitOnceAfterInputConsumed ==
  /\ Len(disk) <= 1
  /\ pc \in {"return", "delete", "done"} => Len(disk) = 1
  /\ disk # <<>> => entry = Len(input)
  /\ pc \notin {"return", "delete", "done"} => disk = <<>>

\* C6: with a required branch missing the run aborts and nothing is committed:
\* Write() is not reached and no output table, not even an empty one, is stored.
C6_MissingBranchCommitsNothing ==
  ~schemaOK => disk = <<>> /\ pc \notin {"return", "delete", "done"}

\* C7: for every evaluated event, a diagnostic naming the event is printed
\* exactly when the retrieved weight exceeds 10, the row is written with exactly
\* the retrieved weight, and the loop goes on to the remaining events.
C7_AnomalousWeightFlaggedNotAltered ==
  /\ \A k \in 1..Len(retW) :
       LET e == retW[k].entry
           w == retW[k].w
       IN  (e < entry \/ pc \in {"loop"} \cup AfterLoop) =>
             /\ \E j \in 1..Len(fillLog) : fillLog[j] = e /\ output[j].w_ff = w
             /\ DGt(w, D(ProblematicThreshold)) <=>
                  \E j \in 1..Len(diagLog) :
                     /\ diagLog[j] = e
                     /\ diag[j] = [w |-> w, eventNumber |-> input[e].eventNumber]
  /\ Len(diag) = Len(diagLog)
  /\ (schemaOK /\ pc \in AfterLoop) => Len(retIds) = Len(input)

\* C7 witness: a finished run whose first event got an anomalous weight, written
\* unchanged, and whose second event was evaluated after it without a diagnostic.
C7_Witness ==
  /\ pc = "done"
  /\ Len(output) >= 2
  /\ output[1].w_ff = <<2 * ProblematicThreshold + 1, 2>>
  /\ output[2].w_ff = D(ProblematicThreshold)
  /\ diagLog = <<1>>

\* C8: the tree add_ham_part_Tau builds has eleven particles and the four
\* vertices parent -> {resonance, tau, anti-nu-tau}, tau -> {mu, nu-tau,
\* anti-nu-mu}, resonance -> {D0, slow pion}, D0 -> {K, pi}; every particle but
\* the parent is an outgoing member of exactly one vertex, the parent of none,
\* every particle is incoming to at most one vertex, and all are reachable from
\* the parent.
C8_DecayTreeShape ==
  pc \in PostBuild =>
    LET ps == proc.particles
        vs == proc.vertices
        Idx == 0..(Len(ps) - 1)
        Has(r, i) == /\ i \in Idx
                     /\ ps[i + 1] = RecPart(Cur, r, IF r = "b" THEN b_id_fix ELSE Cur.id[r])
        RoleVertex(pr, drs) ==
          \E k \in 1..Len(vs) :
             /\ Has(pr, vs[k].parent)
             /\ Len(vs[k].daughters) = Len(drs)
             /\ \A j \in 1..Len(drs) : Has(drs[j], vs[k].daughters[j])
        OutCount(i) ==
          Cardinality({kj \in (1..Len(vs)) \X (1..3) :
                         /\ kj[2] <= Len(vs[kj[1]].daughters)
                         /\ vs[kj[1]].daughters[kj[2]] = i})
        InCount(i) == Cardinality({k \in 1..Len(vs) : vs[k].parent = i})
    IN  /\ Len(ps) = 11
        /\ Len(vs) = 4
        /\ \A r \in Roles : Cardinality({i \in Idx : Has(r, i)}) = 1
        /\ RoleVertex("b", <<"dst", "tau", "anu_tau">>)
        /\ RoleVertex("tau", <<"mu", "nu_tau", "anu_mu">>)
        /\ RoleVertex("dst", <<"d0", "spi">>)
        /\ RoleVertex("d0", <<"k", "pi">>)
        /\ \A i \in Idx :
             /\ OutCount(i) = IF Has("b", i) THEN 0 ELSE 1
             /\ InCount(i) <= 1
        /\ ReachFrom(vs, {i \in Idx : Has("b", i)}) = Idx

\* C8 witness: the tree of an event whose parent code was flipped has been built.
C8_Witness ==
  /\ pc = "init_event"
  /\ Cur = EvOsc
  /\ proc.particles[1].id = 511
  /\ Len(proc.vertices) = 4

\* C9: computing the lepton rest-frame energy leaves the caller's parent,
\* resonance and muon four-momenta as recorded, and the muon registered with
\* the evaluator carries the recorded lab-frame momentum.
C9_BoostActsOnACopy ==
  /\ pc \in PostCalc =>
       /\ b_mom = RecMom(Cur, "b")
       /\ dst_mom = RecMom(Cur, "dst")
       /\ mu_mom = RecMom(Cur, "mu")
  /\ pc \in PostBuild => proc.particles[7] = RecPart(Cur, "mu", Cur.id["mu"])

\* C9 witness: the boost changed the muon energy (el_true differs from the
\* lab-frame energy) and the registered muon still has the recorded momentum.
C9_Witness ==
  /\ pc = "init_event"
  /\ IsFin(el_out)
  /\ el_out # DDiv(Cur.mom["mu"][1], D(MeVPerGeV))
  /\ mu_mom = RecMom(Cur, "mu")
  /\ proc.particles[7].mom = Cur.mom["mu"]

\* C10: every row written by Fill() has its six fields derived from one and the
\* same input event: the identifiers and observables of the event it was filled
\* at and the weight retrieved for that event.
C10_RowFieldsFromOneEvent ==
  /\ Len(fillLog) = Len(output)
  /\ \A k \in 1..Len(output) :
       LET e == fillLog[k]
       IN  /\ output[k].eventNumber = input[e].eventNumber
           /\ output[k].runNumber = input[e].runNumber
           /\ output[k].q2_true = ExpectedQ2(input[e])
           /\ output[k].mm2_true = ExpectedMm2(input[e])
           /\ output[k].el_true = ExpectedEl(input[e])
           /\ \E j \in 1..Len(retW) : retW[j] = [entry |-> e, w |-> output[k].w_ff]

\* C10 witness: an evaluated event, then a skipped one, then an evaluated event
\* of another kind whose row has a weight different from the first row's.
C10_Witness ==
  /\ pc = "loop"
  /\ retIds = <<1, 0, 1>>
  /\ Len(output) = 2
  /\ output[1].w_ff # output[2].w_ff
  /\ output[1].eventNumber # output[2].eventNumber

====
